---- MODULE Spec2Model ----
(***************************************************************************)
(* Model of the asynchronous video-processing pipeline of src/server.js:   *)
(* the upload handler, its background task (audio, visual and synthesis    *)
(* stages), the quiz extraction from model text, the job record and the    *)
(* temp files under /tmp.                                                  *)
(*                                                                         *)
(* Text is modelled as a sequence of tokens.  Node runs a callback to      *)
(* completion, so a job is interleaved with other jobs only where it       *)
(* awaits real I/O (store save, Speech, Vision, Gemini); execSync and the  *)
(* fs.*Sync calls are part of the callback run that contains them.         *)
(***************************************************************************)
EXTENDS Integers, Sequences, FiniteSets, TLC

\* ------------------------------------------------------------------ bounds
MaxQuestions == 2      \* longest quiz drawn for the extractor inputs
MaxFrames == 2         \* most frames ffmpeg samples from one video
MaxFaults == 2         \* failures injected in one run with two uploads
SoloFrames == 6        \* most frames sampled from the video of a lone upload
SoloFaults == 16       \* failures injected in one run with a lone upload
LiveFrames == 1        \* most frames sampled from a video in the runs checked for progress
LiveFaults == 2        \* failures injected in one run checked for progress

\* ------------------------------------------------------- program constants
SliceLimit == 5        \* files.slice(0, 5)

Jobs == {1, 2}

\* ------------------------------------------------------------------ tokens
LB == "["
RB == "]"
LC == "{"
RC == "}"
COMMA == ","
WS == " "
FENCE == "fence"        \* three backquotes
JSONW == "json"
WORD == "w"
QKEY == "questions:"

\* A body token stands for the member list of one question object; a member
\* the object lacks reads as "undefined".
Bodies == {"bA", "bB", "b3", "bX", "bNQ", "bNA"}

Members(b) ==
  CASE b = "bA" -> [question |-> "Q1?", options |-> <<"A", "B", "C", "D">>, correctAnswer |-> "B"]
    [] b = "bB" -> [question |-> "Q2?", options |-> <<"A", "B", "C", "D">>, correctAnswer |-> "A"]
    [] b = "b3" -> [question |-> "Q3?", options |-> <<"A", "B", "C">>, correctAnswer |-> "A"]
    [] b = "bX" -> [question |-> "Q4?", options |-> <<"A", "B", "C", "D">>, correctAnswer |-> "E"]
    [] b = "bNQ" -> [question |-> "undefined", options |-> <<"A", "B", "C", "D">>, correctAnswer |-> "A"]
    [] b = "bNA" -> [question |-> "Q6?", options |-> <<"A", "B", "C", "D">>, correctAnswer |-> "undefined"]
    [] OTHER -> [question |-> "undefined", options |-> <<>>, correctAnswer |-> "undefined"]

\* ------------------------------------------------------------- JSON values
Arr(items) == [t |-> "arr", items |-> items, body |-> ""]
Obj(b) == [t |-> "obj", items |-> <<>>, body |-> b]
Wrapper(v) == [t |-> "obj", items |-> <<v>>, body |-> QKEY]
ParseFail == [ok |-> FALSE, val |-> Obj(""), pos |-> 0]
ParseOk(v, p) == [ok |-> TRUE, val |-> v, pos |-> p]

RECURSIVE SkipWs(_, _)
SkipWs(s, p) == IF p <= Len(s) /\ s[p] = WS THEN SkipWs(s, p + 1) ELSE p

At(s, p) == IF p >= 1 /\ p <= Len(s) THEN s[p] ELSE "eof"

RECURSIVE ParseValue(_, _), ParseElems(_, _, _), ParseObject(_, _)
ParseValue(s, p) ==
  LET q == SkipWs(s, p) IN
  IF At(s, q) = LB THEN
    IF At(s, SkipWs(s, q + 1)) = RB
      THEN ParseOk(Arr(<<>>), SkipWs(s, q + 1) + 1)
      ELSE ParseElems(s, q + 1, <<>>)
  ELSE IF At(s, q) = LC THEN ParseObject(s, q + 1)
  ELSE ParseFail

ParseElems(s, p, acc) ==
  LET r == ParseValue(s, p) IN
  IF ~r.ok THEN ParseFail
  ELSE LET q == SkipWs(s, r.pos) IN
       IF At(s, q) = COMMA THEN ParseElems(s, q + 1, Append(acc, r.val))
       ELSE IF At(s, q) = RB THEN ParseOk(Arr(Append(acc, r.val)), q + 1)
       ELSE ParseFail

ParseObject(s, p) ==
  LET q == SkipWs(s, p) IN
  IF At(s, q) = RC THEN ParseOk(Obj(""), q + 1)
  ELSE IF At(s, q) \in Bodies THEN
    LET e == SkipWs(s, q + 1) IN
    IF At(s, e) = RC THEN ParseOk(Obj(s[q]), e + 1) ELSE ParseFail
  ELSE IF At(s, q) = QKEY THEN
    LET r == ParseValue(s, q + 1) IN
    IF ~r.ok THEN ParseFail
    ELSE LET e == SkipWs(s, r.pos) IN
         IF At(s, e) = RC THEN ParseOk(Wrapper(r.val), e + 1) ELSE ParseFail
  ELSE ParseFail

\* JSON.parse: one value, nothing but whitespace after it.
JsonParse(s) ==
  LET r == ParseValue(s, 1) IN
  IF r.ok /\ SkipWs(s, r.pos) > Len(s) THEN r ELSE ParseFail

\* ------------------------------------------------------- fence stripping
RECURSIVE DropWs(_)
DropWs(s) == IF s # <<>> /\ Head(s) = WS THEN DropWs(Tail(s)) ELSE s

\* jsonText.replace(/FENCEjson\s*/g, ''), line 284
RECURSIVE StripJsonFences(_)
StripJsonFences(s) ==
  IF s = <<>> THEN <<>>
  ELSE IF Len(s) >= 2 /\ s[1] = FENCE /\ s[2] = JSONW
    THEN StripJsonFences(DropWs(SubSeq(s, 3, Len(s))))
    ELSE <<Head(s)>> \o StripJsonFences(Tail(s))

\* .replace(/FENCE\s*/g, ''), line 284
RECURSIVE StripFences(_)
StripFences(s) ==
  IF s = <<>> THEN <<>>
  ELSE IF s[1] = FENCE THEN StripFences(DropWs(Tail(s)))
  ELSE <<Head(s)>> \o StripFences(Tail(s))

\* ---------------------------------------------- /\[\s*\{[\s\S]*\}\s*\]/
RECURSIVE BackWs(_, _)
BackWs(s, p) == IF p >= 1 /\ s[p] = WS THEN BackWs(s, p - 1) ELSE p

MatchStarts(s) == {i \in 1..Len(s) : s[i] = LB /\ At(s, SkipWs(s, i + 1)) = LC}
MatchEnds(s, lc) == {e \in 1..Len(s) : s[e] = RB /\ At(s, BackWs(s, e - 1)) = RC
                                        /\ BackWs(s, e - 1) > lc}
MinOf(S) == CHOOSE x \in S : \A y \in S : x <= y
MaxOf(S) == CHOOSE x \in S : \A y \in S : x >= y

\* The matched span, <<>> when the regular expression does not match.  The
\* leftmost start that can be completed is the leftmost start, and the
\* greedy [\s\S]* runs to the last "}" \s* "]".
JsonMatch(s) ==
  IF MatchStarts(s) = {} THEN <<>>
  ELSE LET i == MinOf(MatchStarts(s))
           ends == MatchEnds(s, SkipWs(s, i + 1))
       IN IF ends = {} THEN <<>> ELSE SubSeq(s, i, MaxOf(ends))

\* ---------------------------------------------- extraction, other designs
\* An extraction that answers a failure with one default question.
ExtractQuizWithDefault(quizText) ==
  LET jsonText == StripFences(StripJsonFences(quizText))
      jsonMatch == JsonMatch(jsonText)
  IN IF jsonMatch = <<>> THEN [raised |-> FALSE, questions |-> <<Obj("bA")>>]
     ELSE LET r == JsonParse(jsonMatch) IN
          IF r.ok THEN [raised |-> FALSE, questions |-> r.val.items]
          ELSE [raised |-> FALSE, questions |-> <<Obj("bA")>>]

\* An extraction whose JSON.parse is not inside a try.
ExtractQuizUncaught(quizText) ==
  LET jsonText == StripFences(StripJsonFences(quizText))
      jsonMatch == JsonMatch(jsonText)
  IN IF jsonMatch = <<>> THEN [raised |-> FALSE, questions |-> <<>>]
     ELSE LET r == JsonParse(jsonMatch) IN
          IF r.ok THEN [raised |-> FALSE, questions |-> r.val.items]
          ELSE [raised |-> TRUE, questions |-> <<>>]

\* ------------------------------------------------------ quiz extraction
\* Lines 281-301.  raised: an exception left the block.
ExtractQuiz(quizText) ==
  LET jsonText == StripFences(StripJsonFences(quizText))
      jsonMatch == JsonMatch(jsonText)
  IN IF jsonMatch = <<>> THEN [raised |-> FALSE, questions |-> <<>>]
     ELSE LET r == JsonParse(jsonMatch) IN
          IF r.ok THEN [raised |-> FALSE, questions |-> r.val.items]
          ELSE [raised |-> FALSE, questions |-> <<>>]

\* q.question, q.correctAnswer, q.options of a parsed entry
Question(q) == IF q.t = "obj" THEN Members(q.body).question ELSE "undefined"
CorrectAnswer(q) == IF q.t = "obj" THEN Members(q.body).correctAnswer ELSE "undefined"
Options(q) == IF q.t = "obj" THEN Members(q.body).options ELSE <<>>

Line(tag, n, text) == [tag |-> tag, n |-> n, text |-> text]
BlankLine == Line("", 0, "")

\* An entry of one line, Q${i + 1}: ${q.correctAnswer}.
KeyEntryAnswerOnly(q, i) == <<Line("Q", i, CorrectAnswer(q))>>

\* Q${i + 1}: ${q.question}\nA: ${q.correctAnswer}
KeyEntry(q, i) == <<Line("Q", i, Question(q)), Line("A", 0, CorrectAnswer(q))>>

\* .join('\n\n'): one blank line between two entries
RECURSIVE JoinEntries(_, _)
JoinEntries(qs, i) ==
  IF i > Len(qs) THEN <<>>
  ELSE IF i = Len(qs) THEN KeyEntry(qs[i], i)
  ELSE KeyEntry(qs[i], i) \o <<BlankLine>> \o JoinEntries(qs, i + 1)

\* Lines 304-306: the answer key as a sequence of lines.
AnswerKey(quizQuestions) == JoinEntries(quizQuestions, 1)

\* Lines 281-308: what generateSummaryAndQuiz makes of the quiz text.
QuizOf(quizText) ==
  LET x == ExtractQuiz(quizText) IN
  [raised |-> x.raised, quizQuestions |-> x.questions,
   answerKey |-> IF x.raised THEN <<>> ELSE AnswerKey(x.questions)]


\* ================================================================ pipeline
VARIABLES
  pc,            \* where each upload / background task stands
  video,         \* per upload: how many frames ffmpeg samples from the video
  quizTexts,     \* the texts the quiz Generate call may return in this run
  response,      \* the HTTP response of each upload: "none", "processing", "400", "500"
  doc,           \* videoProcess, the in-memory document of each upload
  store,         \* the stored job records (the collection behind VideoProcess)
  videoFile,     \* req.file.path of each upload: "none", "present", "deleted"
  audioFile,     \* /tmp/audio.wav: 0 when absent, else the job whose audio it holds
  frameDir,      \* /tmp/frames/frame_NNN.jpg: 0 when absent, else the job whose frame it holds
  audioPath,     \* local audioPath: TRUE when extractAudioFromVideo returned the path
  audioSent,     \* whose audio went into the recognize request
  transcript,    \* local transcript
  files,         \* local files.slice(0, 5) of analyzeVideoFrames
  idx,           \* position of the frame loop in files
  image,         \* whose frame the current iteration read
  allText,       \* local allText
  descriptions,  \* local descriptions
  summary,       \* local summary of generateSummaryAndQuiz
  quizText,      \* local quizText of generateSummaryAndQuiz
  stages,        \* history: the stages each task has entered, in order
  calls,         \* history: the capability calls each task has issued, in order
  inflight,      \* per job: the capability calls issued and not yet settled
  thrown,        \* history: per job, the calls that have thrown or failed
  foreign,       \* history: <<actor, operation, victim>> on a running job's temp file
  faultsLeft,    \* failures the environment may still inject
  xin,           \* extractor run: the model text and how it was built
  xout,          \* extractor run: what lines 281-308 made of it
  xpc            \* extractor run: "in" before, "out" after

vars == <<pc, video, quizTexts, response, doc, store, videoFile, audioFile, frameDir, audioPath,
          audioSent, transcript, files, idx, image, allText, descriptions, summary,
          quizText, stages, calls, inflight, thrown, foreign, faultsLeft, xin, xout, xpc>>

pipeVars == <<pc, video, quizTexts, response, doc, store, videoFile, audioFile, frameDir, audioPath,
              audioSent, transcript, files, idx, image, allText, descriptions, summary,
              quizText, stages, calls, inflight, thrown, foreign, faultsLeft>>
xVars == <<xin, xout, xpc>>

Slots == 1..(IF MaxFrames > SoloFrames THEN MaxFrames ELSE SoloFrames)

\* A piece of derived text: kind, the job whose media it comes from, the frame.
Piece(k, o, s) == [k |-> k, o |-> o, s |-> s]
Newline == Piece("nl", 0, 0)
Separator == Piece("sep", 0, 0)

\* new VideoProcess({userId, originalFilename, status: 'processing'}), lines 323-327
NewDoc == [status |-> "processing", transcript |-> <<>>, extractedText |-> <<>>,
           visualDescription |-> <<>>, summary |-> "", quizQuestions |-> <<>>,
           answerKey |-> <<>>, error |-> ""]
NoRecord == [NewDoc EXCEPT !.status = "none"]

\* A schema that rejects a batch with an entry lacking a member or not
\* having four options.
CastQuizChecked(qs) ==
  IF \A i \in 1..Len(qs) : /\ Question(qs[i]) # "undefined"
                            /\ CorrectAnswer(qs[i]) # "undefined"
                            /\ Len(Options(qs[i])) = 4
    THEN [i \in 1..Len(qs) |-> [question |-> Question(qs[i]), options |-> Options(qs[i]),
                                correctAnswer |-> CorrectAnswer(qs[i])]]
    ELSE <<>>

\* The quizQuestions sub-document schema, lines 51-55.
CastQuestion(q) == [question |-> Question(q), options |-> Options(q),
                    correctAnswer |-> CorrectAnswer(q)]
CastQuiz(qs) == [i \in 1..Len(qs) |-> CastQuestion(qs[i])]

\* descriptions.join('\n\n'), line 235
RECURSIVE JoinDescriptions(_)
JoinDescriptions(ds) ==
  IF Len(ds) <= 1 THEN ds
  ELSE <<Head(ds), Separator>> \o JoinDescriptions(Tail(ds))

\* fs.readdirSync(frameDir).filter(.jpg): the frame files that exist, by name
RECURSIVE ReadDirFrom(_, _)
ReadDirFrom(dir, s) ==
  IF s \notin DOMAIN dir THEN <<>>
  ELSE (IF dir[s] # 0 THEN <<s>> ELSE <<>>) \o ReadDirFrom(dir, s + 1)
ReadDir(dir) == ReadDirFrom(dir, 1)

\* files.slice(0, 5), line 196
Slice(fs, n) == SubSeq(fs, 1, IF Len(fs) < n THEN Len(fs) ELSE n)

\* ------------------------------------------------------------- model texts
\* The text of a quiz: its question objects as a bare array or inside
\* {"questions": [...]}, with or without code fences around it.
RECURSIVE ObjectsText(_)
ObjectsText(qs) ==
  IF qs = <<>> THEN <<>>
  ELSE IF Len(qs) = 1 THEN <<LC, qs[1], RC>>
  ELSE <<LC, qs[1], RC, COMMA, WS>> \o ObjectsText(Tail(qs))

ArrayText(qs) == <<LB>> \o ObjectsText(qs) \o <<RB>>
WrapperText(qs) == <<LC, QKEY>> \o ArrayText(qs) \o <<RC>>
ShapeText(shape, qs) == IF shape = "array" THEN ArrayText(qs) ELSE WrapperText(qs)

FenceText(fence, t) ==
  CASE fence = "json" -> <<FENCE, JSONW, WS>> \o t \o <<WS, FENCE>>
    [] fence = "bare" -> <<FENCE, WS>> \o t \o <<WS, FENCE>>
    [] OTHER -> t

\* Texts with no quiz the extraction can use: prose only, and an array with
\* a stray word between two objects.
ProseText == <<WORD, WS, WORD>>
GarbledText == <<LB, LC, "bA", RC, WORD, LC, "bB", RC, RB>>

\* The texts the quiz Generate call returns to a lone upload, and to each of
\* two uploads.
PipelineTexts ==
  { ProseText, GarbledText, ArrayText(<<"bA">>),
    FenceText("json", WrapperText(<<"bA", "bB">>)),
    ArrayText(<<"b3">>), ArrayText(<<"bX">>),
    ArrayText(<<"bA", "b3">>), ArrayText(<<"bNQ", "bA", "bNA">>) }
ConcurrentTexts == { ArrayText(<<"bA">>) }

\* A job whose background task is under way.
Running(j) == pc[j] \notin {"request", "absent", "awaitCreate", "rejected", "done", "unhandled"}

\* The environment injects n more failures.
Spend(n) == faultsLeft >= n /\ faultsLeft' = faultsLeft - n
Cost(ok) == IF ok THEN 0 ELSE 1

\* The names in th, and name too if the call failed.
Threw(th, ok, name) == IF ok THEN th ELSE th \cup {name}

\* What a write, read or delete of a file holding job o's media by job j adds
\* to the history.
Touch(j, op, o) == IF o # 0 /\ o # j /\ Running(o) THEN {<<j, op, o>>} ELSE {}

\* What no callback run of the pipeline changes.
envVars == <<video, quizTexts, xin, xout, xpc>>

\* A capability call: recognize, ocr, describe, summary or quiz, and the
\* frame file it is about (0 when none).
Call(c, f) == [c |-> c, f |-> f]

\* The callback run of job j resumes from the calls in settled and awaits
\* the call it issues.
Issue(j, settled, call) ==
  /\ calls' = [calls EXCEPT ![j] = Append(@, call)]
  /\ inflight' = [inflight EXCEPT ![j] = (@ \ settled) \cup {call.c}]

\* The callback run of job j resumes from the calls in settled and issues no
\* capability call.
Settle(j, settled) ==
  /\ inflight' = [inflight EXCEPT ![j] = @ \ settled]
  /\ UNCHANGED calls

\* Each action below is one callback run: from the arrival of a request or
\* the settlement of an awaited call up to the next await of real I/O.

\* ----------------------------------------------------------- upload handler
\* Lines 316-328: the request arrives; without a file it is answered 400,
\* else the document is created and its first save is awaited.
Upload(j) ==
  /\ pc[j] = "request"
  /\ \E hasFile \in BOOLEAN :
       IF hasFile
         THEN /\ videoFile' = [videoFile EXCEPT ![j] = "present"]
              /\ doc' = [doc EXCEPT ![j] = NewDoc]
              /\ pc' = [pc EXCEPT ![j] = "awaitCreate"]
              /\ UNCHANGED response
         ELSE /\ response' = [response EXCEPT ![j] = "400"]
              /\ pc' = [pc EXCEPT ![j] = "rejected"]
              /\ UNCHANGED <<videoFile, doc>>
  /\ UNCHANGED <<envVars, calls, inflight, store, audioFile, frameDir, audioPath, audioSent, transcript,
                 files, idx, image, allText, descriptions, summary, quizText, stages,
                 thrown, foreign, faultsLeft>>

\* A handler that responds and schedules the task without awaiting the save.
CreateSavedNoAwait(j) ==
  /\ pc[j] = "awaitCreate"
  /\ response' = [response EXCEPT ![j] = "processing"]
  /\ pc' = [pc EXCEPT ![j] = "scheduled"]
  /\ UNCHANGED <<envVars, calls, inflight, doc, store, videoFile, audioFile, frameDir, audioPath, audioSent,
                 transcript, files, idx, image, allText, descriptions, summary, quizText,
                 stages, thrown, foreign, faultsLeft>>

\* Lines 328-333: the first save succeeded; respond, then setImmediate.
CreateSaved(j) ==
  /\ pc[j] = "awaitCreate"
  /\ store' = [store EXCEPT ![j] = doc[j]]
  /\ response' = [response EXCEPT ![j] = "processing"]
  /\ pc' = [pc EXCEPT ![j] = "scheduled"]
  /\ UNCHANGED <<envVars, calls, inflight, doc, videoFile, audioFile, frameDir, audioPath, audioSent,
                 transcript, files, idx, image, allText, descriptions, summary, quizText,
                 stages, thrown, foreign, faultsLeft>>

\* Lines 328, 388-390: the first save threw; the handler's catch answers 500.
CreateFailed(j) ==
  /\ pc[j] = "awaitCreate"
  /\ Spend(1)
  /\ response' = [response EXCEPT ![j] = "500"]
  /\ thrown' = [thrown EXCEPT ![j] = @ \cup {"create"}]
  /\ pc' = [pc EXCEPT ![j] = "rejected"]
  /\ UNCHANGED <<envVars, calls, inflight, doc, store, videoFile, audioFile, frameDir, audioPath,
                 audioSent, transcript, files, idx, image, allText, descriptions, summary,
                 quizText, stages, foreign>>

\* A catch that marks the document failed and records no message.
AbortNoMessage(j, message) ==
  /\ doc' = [doc EXCEPT ![j].status = "failed"]
  /\ pc' = [pc EXCEPT ![j] = "awaitSaveFailed"]

\* Lines 381-385: the task's catch marks the document failed, records the
\* message and issues the save.
Abort(j, message) ==
  /\ doc' = [doc EXCEPT ![j].status = "failed", ![j].error = message]
  /\ pc' = [pc EXCEPT ![j] = "awaitSaveFailed"]

\* ------------------------------------------------------------- visual stage
\* A frame loop that issues textDetection and the description of a frame
\* together.
ReadFrameParallel(j, fs, i, dir, st, settled) ==
  IF i > Len(fs)
    THEN /\ pc' = [pc EXCEPT ![j] = "awaitSummary"]
         /\ stages' = [stages EXCEPT ![j] = st \o <<"synthesis">>]
         /\ Issue(j, settled, Call("summary", 0))
         /\ UNCHANGED image
    ELSE /\ image' = [image EXCEPT ![j] = dir[fs[i]]]
         /\ pc' = [pc EXCEPT ![j] = "awaitOcr"]
         /\ stages' = [stages EXCEPT ![j] = st]
         /\ calls' = [calls EXCEPT ![j] = @ \o <<Call("ocr", fs[i]), Call("describe", fs[i])>>]
         /\ inflight' = [inflight EXCEPT ![j] = (@ \ settled) \cup {"ocr", "describe"}]

\* Lines 196-207 and 233-236, then 244-257: file i of the listing is read and
\* sent to textDetection; past the last file the stage returns, the combined
\* content is built and the summary Generate call is issued.
ReadFrame(j, fs, i, dir, st, settled) ==
  IF i > Len(fs)
    THEN /\ pc' = [pc EXCEPT ![j] = "awaitSummary"]
         /\ stages' = [stages EXCEPT ![j] = st \o <<"synthesis">>]
         /\ Issue(j, settled, Call("summary", 0))
         /\ UNCHANGED image
    ELSE /\ image' = [image EXCEPT ![j] = dir[fs[i]]]
         /\ pc' = [pc EXCEPT ![j] = "awaitOcr"]
         /\ stages' = [stages EXCEPT ![j] = st]
         /\ Issue(j, settled, Call("ocr", fs[i]))
ReadTouch(j, fs, i, dir) == IF i > Len(fs) THEN {} ELSE Touch(j, "read", dir[fs[i]])

\* Lines 350 with 182-207 and 237-240: ffmpeg writes the video's frames over
\* /tmp/frames/frame_001.jpg ..., the directory is listed and cut to five and
\* the first file is read; if ffmpeg fails both outputs are '' and synthesis
\* starts.  used, st, th: the failures injected, the stages entered and the
\* calls failed so far, this callback run included; settled: the calls this
\* callback run resumed from.
VisualStart(j, ok, used, st, th, settled) ==
  /\ Spend(used + Cost(ok))
  /\ thrown' = [thrown EXCEPT ![j] = Threw(th, ok, "ffmpegFrames")]
  /\ idx' = [idx EXCEPT ![j] = 1]
  /\ allText' = [allText EXCEPT ![j] = <<>>]
  /\ descriptions' = [descriptions EXCEPT ![j] = <<>>]
  /\ IF ok
       THEN LET dir == [s \in Slots |-> IF s <= video[j] THEN j ELSE frameDir[s]]
                fs == Slice(ReadDir(dir), SliceLimit)
            IN /\ frameDir' = dir
               /\ files' = [files EXCEPT ![j] = fs]
               /\ foreign' = foreign
                    \cup UNION {Touch(j, "overwrite", frameDir[s]) : s \in 1..video[j]}
                    \cup ReadTouch(j, fs, 1, dir)
               /\ ReadFrame(j, fs, 1, dir, st \o <<"visual">>, settled)
       ELSE /\ pc' = [pc EXCEPT ![j] = "awaitSummary"]
            /\ stages' = [stages EXCEPT ![j] = st \o <<"visual", "synthesis">>]
            /\ Issue(j, settled, Call("summary", 0))
            /\ UNCHANGED <<frameDir, files, foreign, image>>

\* -------------------------------------------------------------- audio stage
\* A task without the test of line 342: recognize is called on whatever
\* /tmp/audio.wav holds also when extractAudioFromVideo returned null.
StartTaskNoGuard(j) ==
  /\ pc[j] = "scheduled"
  /\ \E audioOk \in BOOLEAN :
       /\ Spend(Cost(audioOk))
       /\ thrown' = [thrown EXCEPT ![j] = Threw(@, audioOk, "ffmpegAudio")]
       /\ audioFile' = IF audioOk THEN j ELSE audioFile
       /\ foreign' = IF audioOk THEN foreign \cup Touch(j, "overwrite", audioFile) ELSE foreign
       /\ audioPath' = [audioPath EXCEPT ![j] = audioOk]
       /\ audioSent' = [audioSent EXCEPT ![j] = audioFile']
       /\ stages' = [stages EXCEPT ![j] = <<"audio">>]
       /\ pc' = [pc EXCEPT ![j] = "awaitTranscribe"]
       /\ Issue(j, {}, Call("recognize", 0))
       /\ UNCHANGED <<frameDir, files, idx, image, allText, descriptions>>
  /\ UNCHANGED <<envVars, response, doc, store, videoFile, transcript, summary, quizText>>

\* Lines 333-350 with 141-170: the task starts.  ffmpeg writes /tmp/audio.wav,
\* transcribeAudio reads it back and sends it to recognize; or ffmpeg fails,
\* extractAudioFromVideo returns null and the visual stage starts.
StartTask(j) ==
  /\ pc[j] = "scheduled"
  /\ \E audioOk \in BOOLEAN, framesOk \in BOOLEAN :
       IF audioOk
         THEN /\ framesOk
              /\ Spend(0)
              /\ audioFile' = j
              /\ foreign' = foreign \cup Touch(j, "overwrite", audioFile)
              /\ audioPath' = [audioPath EXCEPT ![j] = TRUE]
              /\ audioSent' = [audioSent EXCEPT ![j] = audioFile']
              /\ stages' = [stages EXCEPT ![j] = <<"audio">>]
              /\ pc' = [pc EXCEPT ![j] = "awaitTranscribe"]
              /\ Issue(j, {}, Call("recognize", 0))
              /\ UNCHANGED <<frameDir, files, idx, image, allText, descriptions, thrown>>
         ELSE /\ audioPath' = [audioPath EXCEPT ![j] = FALSE]
              /\ VisualStart(j, framesOk, 1, <<"audio">>, thrown[j] \cup {"ffmpegAudio"}, {})
              /\ UNCHANGED <<audioFile, audioSent>>
  /\ UNCHANGED <<envVars, response, doc, store, videoFile, transcript, summary, quizText>>

\* A transcribeAudio without its try.
TranscribeEscapes == FALSE

\* Whether a throw of speechClient.recognize is caught inside transcribeAudio
\* (the try of line 155 with the catch of lines 175-178).
TranscribeCatches == TRUE

\* Lines 170-178, 344-350: recognize returns the transcription, or throws and
\* the transcript is ''; the visual stage starts.
TranscribeReturn(j) ==
  /\ pc[j] = "awaitTranscribe"
  /\ \E ok \in BOOLEAN, framesOk \in BOOLEAN :
       /\ transcript' = [transcript EXCEPT ![j] =
            IF ok THEN <<Piece("speech", audioSent[j], 0)>> ELSE <<>>]
       /\ IF ~ok /\ ~TranscribeCatches
            THEN /\ framesOk
                 /\ Spend(1)
                 /\ thrown' = [thrown EXCEPT ![j] = @ \cup {"recognize"}]
                 /\ Abort(j, "recognize")
                 /\ Settle(j, {"recognize"})
                 /\ UNCHANGED <<frameDir, files, idx, image, allText, descriptions,
                                stages, foreign>>
            ELSE /\ VisualStart(j, framesOk, Cost(ok), stages[j],
                                Threw(thrown[j], ok, "recognize"), {"recognize"})
                 /\ UNCHANGED doc
  /\ UNCHANGED <<envVars, response, store, videoFile, audioFile, audioPath, audioSent,
                 summary, quizText>>

\* A frame loop in which a throw of textDetection skips the rest of the
\* iteration.
OcrReturnSkips(j) ==
  /\ pc[j] = "awaitOcr"
  /\ \E ok \in BOOLEAN :
       /\ Spend(Cost(ok))
       /\ thrown' = [thrown EXCEPT ![j] = Threw(@, ok, "ocr")]
       /\ allText' = [allText EXCEPT ![j] =
            IF ok THEN @ \o <<Piece("ocr", image[j], files[j][idx[j]]), Newline>> ELSE @]
       /\ IF ok
            THEN /\ pc' = [pc EXCEPT ![j] = "awaitDescribe"]
                 /\ Issue(j, {"ocr"}, Call("describe", files[j][idx[j]]))
                 /\ UNCHANGED <<idx, image, stages, foreign>>
            ELSE /\ idx' = [idx EXCEPT ![j] = @ + 1]
                 /\ foreign' = foreign \cup ReadTouch(j, files[j], idx[j] + 1, frameDir)
                 /\ ReadFrame(j, files[j], idx[j] + 1, frameDir, stages[j], {"ocr"})
  /\ UNCHANGED <<envVars, response, doc, store, videoFile, audioFile, frameDir,
                 audioPath, audioSent, transcript, files, descriptions,
                 summary, quizText>>

\* Lines 207-223: textDetection returns the frame's text, which is appended
\* with a newline, or throws, which is logged; then the description is asked.
OcrReturn(j) ==
  /\ pc[j] = "awaitOcr"
  /\ \E ok \in BOOLEAN :
       /\ Spend(Cost(ok))
       /\ thrown' = [thrown EXCEPT ![j] = Threw(@, ok, "ocr")]
       /\ allText' = [allText EXCEPT ![j] =
            IF ok THEN @ \o <<Piece("ocr", image[j], files[j][idx[j]]), Newline>> ELSE @]
  /\ pc' = [pc EXCEPT ![j] = "awaitDescribe"]
  /\ Issue(j, {"ocr"}, Call("describe", files[j][idx[j]]))
  /\ UNCHANGED <<envVars, response, doc, store, videoFile, audioFile, frameDir,
                 audioPath, audioSent, transcript, files, idx, image, descriptions,
                 summary, quizText, stages, foreign>>

\* Lines 223-231, then 196-207: generateContent returns the description,
\* which is pushed, or throws, which is logged; the loop reads the next file.
DescribeReturn(j) ==
  /\ pc[j] = "awaitDescribe"
  /\ \E ok \in BOOLEAN :
       /\ Spend(Cost(ok))
       /\ thrown' = [thrown EXCEPT ![j] = Threw(@, ok, "describe")]
       /\ descriptions' = [descriptions EXCEPT ![j] =
            IF ok THEN Append(@, Piece("desc", image[j], files[j][idx[j]])) ELSE @]
  /\ idx' = [idx EXCEPT ![j] = @ + 1]
  /\ foreign' = foreign \cup ReadTouch(j, files[j], idx[j] + 1, frameDir)
  /\ ReadFrame(j, files[j], idx[j] + 1, frameDir, stages[j], {"describe"})
  /\ UNCHANGED <<envVars, response, doc, store, videoFile, audioFile, frameDir,
                 audioPath, audioSent, transcript, files, allText, summary, quizText>>

\* ---------------------------------------------------------- synthesis stage
\* A completion that fills the document and never issues the save.
CompleteWriteNoSave(j, sum, quizQuestions, answerKey) ==
  /\ doc' = [doc EXCEPT ![j] =
       [status |-> "completed", transcript |-> transcript[j],
        extractedText |-> allText[j],
        visualDescription |-> JoinDescriptions(descriptions[j]),
        summary |-> sum, quizQuestions |-> CastQuiz(quizQuestions),
        answerKey |-> answerKey, error |-> ""]]
  /\ pc' = [pc EXCEPT ![j] = "done"]

\* Lines 360-370: the stage's result and the earlier outputs are put on the
\* document with status completed and the save is issued.
CompleteWrite(j, sum, quizQuestions, answerKey) ==
  /\ doc' = [doc EXCEPT ![j] =
       [status |-> "completed", transcript |-> transcript[j],
        extractedText |-> allText[j],
        visualDescription |-> JoinDescriptions(descriptions[j]),
        summary |-> sum, quizQuestions |-> CastQuiz(quizQuestions),
        answerKey |-> answerKey, error |-> ""]]
  /\ pc' = [pc EXCEPT ![j] = "awaitSaveCompleted"]

\* A catch that returns the summary with an empty quiz.
SummaryOnlySynthesis == [summary |-> "summary", quizQuestions |-> <<>>, answerKey |-> <<>>]

\* Lines 309-312: the result of generateSummaryAndQuiz when a Generate call
\* threw.
EmptySynthesis == [summary |-> "", quizQuestions |-> <<>>, answerKey |-> <<>>]

\* Lines 257-277 and 309-312: the summary call returns, and the quiz call is
\* issued, or throws, and the stage returns its empty result.
SummaryReturn(j) ==
  /\ pc[j] = "awaitSummary"
  /\ \E ok \in BOOLEAN :
       /\ Spend(Cost(ok))
       /\ thrown' = [thrown EXCEPT ![j] = Threw(@, ok, "summary")]
       /\ IF ok
            THEN /\ summary' = [summary EXCEPT ![j] = "summary"]
                 /\ pc' = [pc EXCEPT ![j] = "awaitQuiz"]
                 /\ Issue(j, {"summary"}, Call("quiz", 0))
                 /\ UNCHANGED doc
            ELSE /\ CompleteWrite(j, EmptySynthesis.summary, EmptySynthesis.quizQuestions,
                                  EmptySynthesis.answerKey)
                 /\ Settle(j, {"summary"})
                 /\ UNCHANGED summary
  /\ UNCHANGED <<envVars, response, store, videoFile, audioFile, frameDir, audioPath,
                 audioSent, transcript, files, idx, image, allText, descriptions,
                 quizText, stages, foreign>>

\* Lines 277-312: the quiz call returns a text, from which the questions and
\* the answer key are made, or throws, and the stage returns its empty result.
QuizReturn(j) ==
  /\ pc[j] = "awaitQuiz"
  /\ Settle(j, {"quiz"})
  /\ \/ /\ Spend(0)
        /\ \E text \in quizTexts :
             LET r == QuizOf(text) IN
             /\ quizText' = [quizText EXCEPT ![j] = text]
             /\ IF r.raised
                  THEN CompleteWrite(j, EmptySynthesis.summary,
                                     EmptySynthesis.quizQuestions, EmptySynthesis.answerKey)
                  ELSE CompleteWrite(j, summary[j], r.quizQuestions, r.answerKey)
        /\ UNCHANGED thrown
     \/ /\ Spend(1)
        /\ thrown' = [thrown EXCEPT ![j] = @ \cup {"quiz"}]
        /\ CompleteWrite(j, EmptySynthesis.summary, EmptySynthesis.quizQuestions,
                         EmptySynthesis.answerKey)
        /\ UNCHANGED quizText
  /\ UNCHANGED <<envVars, response, store, videoFile, audioFile, frameDir, audioPath,
                 audioSent, transcript, files, idx, image, allText, descriptions, summary,
                 stages, foreign>>

\* ------------------------------------------------------ persistence, cleanup
\* A cleanup without its own try.
CleanupEscapes == FALSE

\* A cleanup whose catch logs the error and throws it again.
CleanupRethrows == FALSE

\* Whether a throw of an unlink of the cleanup is caught by the cleanup's own
\* try (lines 375-380).
CleanupCatches == TRUE

\* Lines 370-380: the save resolves and the completed record is stored; then
\* the video file is unlinked, then /tmp/audio.wav if an audio path was
\* returned and the file exists; a throw skips the rest and is logged.
SaveCompletedOk(j) ==
  /\ pc[j] = "awaitSaveCompleted"
  /\ store' = [store EXCEPT ![j] = doc[j]]
  /\ \E outcome \in {"ok", "unlinkVideo", "unlinkAudio"} :
       LET unlinkAudio == audioPath[j] /\ audioFile # 0 IN
       /\ outcome = "unlinkAudio" => unlinkAudio
       /\ Spend(Cost(outcome = "ok"))
       /\ thrown' = [thrown EXCEPT ![j] = Threw(@, outcome = "ok", outcome)]
       /\ videoFile' = [videoFile EXCEPT ![j] =
            IF outcome = "unlinkVideo" THEN @ ELSE "deleted"]
       /\ IF outcome = "ok" /\ unlinkAudio
            THEN /\ audioFile' = 0
                 /\ foreign' = foreign \cup Touch(j, "delete", audioFile)
            ELSE UNCHANGED <<audioFile, foreign>>
       /\ IF outcome # "ok" /\ ~CleanupCatches
            THEN Abort(j, "unlink")
            ELSE /\ pc' = [pc EXCEPT ![j] = "done"]
                 /\ UNCHANGED doc
  /\ UNCHANGED <<envVars, calls, inflight, response, frameDir, audioPath, audioSent, transcript, files,
                 idx, image, allText, descriptions, summary, quizText, stages>>

\* Lines 370, 381-385: the save rejects and the task's catch runs.
SaveCompletedFail(j) ==
  /\ pc[j] = "awaitSaveCompleted"
  /\ Spend(1)
  /\ thrown' = [thrown EXCEPT ![j] = @ \cup {"saveCompleted"}]
  /\ Abort(j, "save")
  /\ UNCHANGED <<envVars, calls, inflight, response, store, videoFile, audioFile, frameDir, audioPath,
                 audioSent, transcript, files, idx, image, allText, descriptions, summary,
                 quizText, stages, foreign>>

\* Line 385 resolves: the failed record is stored and the task ends.
SaveFailedOk(j) ==
  /\ pc[j] = "awaitSaveFailed"
  /\ store' = [store EXCEPT ![j] = doc[j]]
  /\ pc' = [pc EXCEPT ![j] = "done"]
  /\ UNCHANGED <<envVars, calls, inflight, response, doc, videoFile, audioFile, frameDir, audioPath,
                 audioSent, transcript, files, idx, image, allText, descriptions, summary,
                 quizText, stages, thrown, foreign, faultsLeft>>

\* Where the task ends when the save of line 385 rejects: the save is inside
\* the catch of lines 381-386 and nothing encloses it, so the promise of the
\* async callback rejects with no handler.
SaveFailedThrowPc == "unhandled"

\* Line 385 rejects.
SaveFailedFail(j) ==
  /\ pc[j] = "awaitSaveFailed"
  /\ Spend(1)
  /\ thrown' = [thrown EXCEPT ![j] = @ \cup {"saveFailed"}]
  /\ pc' = [pc EXCEPT ![j] = SaveFailedThrowPc]
  /\ UNCHANGED <<envVars, calls, inflight, response, doc, store, videoFile, audioFile, frameDir,
                 audioPath, audioSent, transcript, files, idx, image, allText,
                 descriptions, summary, quizText, stages, foreign>>

\* ------------------------------------------------------------ extractor runs
Phrases ==
  { <<>>, <<WORD>>, <<WORD, WS, WORD>>, <<LB, WORD, RB>>, <<LC, WORD, RC>>,
    <<LB, LC, WORD, RC, RB>> }

QuizSeqs == UNION {[1..n -> Bodies] : n \in 1..MaxQuestions}

WrappedInputs ==
  { [kind |-> "wrapped", quiz |-> qs, pre |-> a, post |-> b,
     text |-> a \o FenceText(f, ShapeText(sh, qs)) \o b] :
      qs \in QuizSeqs, a \in Phrases, b \in Phrases,
      f \in {"json", "bare", "none"}, sh \in {"array", "object"} }

\* Texts with no JSON quiz in them.
PlainTexts ==
  { <<>>, <<WORD>>, <<WORD, WS, WORD, WS, WORD>>, <<FENCE, WS, WORD, WS, FENCE>>,
    <<LB, WORD, RB>>, <<LC, WORD, RC>>, <<LB, RB>>, <<LC, RC>> }

\* Texts with a damaged quiz in them.
BrokenTexts ==
  { <<LB, LC, "bA", RC, COMMA, LC, "bB", RC>>,
    <<LB, LC, "bA", RC, WORD, LC, "bB", RC, RB>>,
    <<LB, LC, "bA", RC, COMMA, RB>>,
    <<LB, LC, WORD, RC, RB>>,
    <<LB, LC, "bA", LC, RC, RB>>,
    <<FENCE, JSONW, WS, LB, LC, "bA", RC, RB, RB, WS, LC, RC, RB, FENCE>> }

RawInputs ==
  { [kind |-> "plain", quiz |-> <<>>, pre |-> <<>>, post |-> <<>>, text |-> t] :
      t \in PlainTexts } \cup
  { [kind |-> "broken", quiz |-> <<>>, pre |-> <<>>, post |-> <<>>, text |-> t] :
      t \in BrokenTexts }

NoInput == [kind |-> "none", quiz |-> <<>>, pre |-> <<>>, post |-> <<>>, text |-> <<>>]
NoOutput == [raised |-> FALSE, quizQuestions |-> <<>>, answerKey |-> <<>>]

\* Lines 278-308 on one model text.
Extract ==
  /\ xpc = "in"
  /\ xout' = QuizOf(xin.text)
  /\ xpc' = "out"
  /\ UNCHANGED <<xin, pipeVars>>

\* ------------------------------------------------------------ specifications
InitPipe ==
  /\ response = [j \in Jobs |-> "none"]
  /\ doc = [j \in Jobs |-> NoRecord]
  /\ store = [j \in Jobs |-> NoRecord]
  /\ videoFile = [j \in Jobs |-> "none"]
  /\ audioFile = 0
  /\ frameDir = [s \in Slots |-> 0]
  /\ audioPath = [j \in Jobs |-> FALSE]
  /\ audioSent = [j \in Jobs |-> 0]
  /\ transcript = [j \in Jobs |-> <<>>]
  /\ files = [j \in Jobs |-> <<>>]
  /\ idx = [j \in Jobs |-> 1]
  /\ image = [j \in Jobs |-> 0]
  /\ allText = [j \in Jobs |-> <<>>]
  /\ descriptions = [j \in Jobs |-> <<>>]
  /\ summary = [j \in Jobs |-> ""]
  /\ stages = [j \in Jobs |-> <<>>]
  /\ calls = [j \in Jobs |-> <<>>]
  /\ inflight = [j \in Jobs |-> {}]
  /\ thrown = [j \in Jobs |-> {}]
  /\ quizText = [j \in Jobs |-> <<>>]
  /\ foreign = {}

\* Two uploads, each of a video of up to MaxFrames frames; the jobs are
\* alike, so job 1 names the upload whose video is not the shorter one.
Init ==
  /\ InitPipe
  /\ pc = [j \in Jobs |-> "request"]
  /\ video \in {v \in [Jobs -> 1..MaxFrames] : \A j, k \in Jobs : j < k => v[j] >= v[k]}
  /\ quizTexts = ConcurrentTexts
  /\ faultsLeft = MaxFaults
  /\ xin = NoInput /\ xout = NoOutput /\ xpc = "off"

\* One upload, of a video of up to SoloFrames frames.
InitSolo ==
  /\ InitPipe
  /\ pc = [j \in Jobs |-> IF j = 1 THEN "request" ELSE "absent"]
  /\ video \in {v \in [Jobs -> 0..SoloFrames] : v[1] > 0 /\ \A j \in Jobs \ {1} : v[j] = 0}
  /\ quizTexts = PipelineTexts
  /\ faultsLeft = SoloFaults
  /\ xin = NoInput /\ xout = NoOutput /\ xpc = "off"

\* No upload; one model text handed to the quiz extraction.
InitExtract ==
  /\ InitPipe
  /\ pc = [j \in Jobs |-> "absent"]
  /\ video = [j \in Jobs |-> 0]
  /\ quizTexts = {}
  /\ faultsLeft = 0
  /\ xin \in WrappedInputs \cup RawInputs
  /\ xout = NoOutput /\ xpc = "in"

Next ==
  \E j \in Jobs :
    \/ Upload(j) \/ CreateSaved(j) \/ CreateFailed(j)
    \/ StartTask(j) \/ TranscribeReturn(j) \/ OcrReturn(j) \/ DescribeReturn(j)
    \/ SummaryReturn(j) \/ QuizReturn(j)
    \/ SaveCompletedOk(j) \/ SaveCompletedFail(j)
    \/ SaveFailedOk(j) \/ SaveFailedFail(j)

NextExtract == Extract

\* Two uploads of short videos, for the runs checked for progress.
InitLive ==
  /\ InitPipe
  /\ pc = [j \in Jobs |-> "request"]
  /\ video \in {v \in [Jobs -> 1..LiveFrames] : \A j, k \in Jobs : j < k => v[j] >= v[k]}
  /\ quizTexts = ConcurrentTexts
  /\ faultsLeft = LiveFaults
  /\ xin = NoInput /\ xout = NoOutput /\ xpc = "off"

\* The callback runs of job j's background task.
TaskStep(j) ==
  \/ StartTask(j) \/ TranscribeReturn(j) \/ OcrReturn(j) \/ DescribeReturn(j)
  \/ SummaryReturn(j) \/ QuizReturn(j)
  \/ SaveCompletedOk(j) \/ SaveCompletedFail(j)
  \/ SaveFailedOk(j) \/ SaveFailedFail(j)

\* Job j's task has a callback to run: the one setImmediate queued, or the
\* continuation of an await.  This is ENABLED <<TaskStep(j)>>_vars: at each of
\* these positions the action of that position has a branch with no failure.
Pending(j) ==
  pc[j] \in {"scheduled", "awaitTranscribe", "awaitOcr", "awaitDescribe", "awaitSummary",
             "awaitQuiz", "awaitSaveCompleted", "awaitSaveFailed"}

\* WF_vars(TaskStep(j)) with Pending(j) for its ENABLED: the event loop runs
\* every queued callback, and every awaited call settles.
TaskFair(j) == ([]<>(~Pending(j))) \/ ([]<><<TaskStep(j)>>_vars)

Spec == Init /\ [][Next]_vars
SpecSolo == InitSolo /\ [][Next]_vars
SpecExtract == InitExtract /\ [][NextExtract]_vars
SpecLive == InitLive /\ [][Next]_vars /\ \A j \in Jobs : TaskFair(j)


\* ==================================================================== claims
Ended(j) == pc[j] \in {"done", "unhandled"}
Saves == {"create", "saveCompleted", "saveFailed"}
Terminal == {"completed", "failed"}

\* C1: the stored job record's status only moves processing -> completed or
\* processing -> failed; once completed or failed it never changes again.
C1_StatusMonotonic ==
  [][\A j \in Jobs :
       /\ store[j].status \in Terminal => store'[j].status = store[j].status
       /\ store[j].status = "processing" =>
            store'[j].status \in {"processing"} \cup Terminal]_vars

\* C1 witness: a record stored as completed whose cleanup then threw, and
\* the task has ended.
C1_Witness ==
  \E j \in Jobs : /\ pc[j] = "done" /\ store[j].status = "completed"
                  /\ "unlinkVideo" \in thrown[j]

OwnPieces(j, text) == \A i \in 1..Len(text) : text[i].o \in {0, j}
C3_JobsIsolated ==
  /\ foreign = {}
  /\ \A j \in Jobs : /\ OwnPieces(j, transcript[j]) /\ OwnPieces(j, allText[j])
                     /\ OwnPieces(j, descriptions[j])
                     /\ OwnPieces(j, store[j].transcript)
                     /\ OwnPieces(j, store[j].extractedText)
                     /\ OwnPieces(j, store[j].visualDescription)

\* C4 as stated: when a run has ended, completed or failed, the uploaded
\* video file, the extracted audio and every sampled frame are gone.
C4_TempFilesReleased ==
  \A j \in Jobs :
    Ended(j) => /\ videoFile[j] = "deleted"
                /\ audioFile # j
                /\ \A s \in Slots : frameDir[s] # j

\* C5: if no save of the job throws, no failure of audio extraction,
\* Transcribe, frame sampling, DetectText or Generate aborts the run: all
\* three stages are entered and the job ends completed; a job is aborted or
\* failed only after one of its saves threw.
C5_SoftFailuresDoNotAbort ==
  \A j \in Jobs :
    /\ (Ended(j) /\ thrown[j] \cap Saves = {}) =>
         /\ store[j].status = "completed"
         /\ stages[j] = <<"audio", "visual", "synthesis">>
    /\ (store[j].status = "failed" \/ doc[j].status = "failed"
          \/ pc[j] \in {"awaitSaveFailed", "unhandled"}) => thrown[j] \cap Saves # {}

\* C5 witness: a job that ended completed although Transcribe, DetectText,
\* the image description and the quiz Generate call all threw.
C5_Witness ==
  \E j \in Jobs : /\ pc[j] = "done" /\ store[j].status = "completed"
                  /\ {"recognize", "ocr", "describe", "quiz"} \subseteq thrown[j]

\* C6 as stated: the answer key has one line per question, line k being
\* Qk: <correctAnswer of question k>.
C6_OneLinePerQuestion ==
  xpc = "out" =>
    /\ Len(xout.answerKey) = Len(xout.quizQuestions)
    /\ \A k \in 1..Len(xout.quizQuestions) :
         k <= Len(xout.answerKey) /\
         xout.answerKey[k] = Line("Q", k, CorrectAnswer(xout.quizQuestions[k]))

\* C6 amended: for N questions the answer key has, for k = 1..N, the line
\* Qk: <question k> followed by the line A: <correctAnswer k>, with one blank
\* line between two entries (3N - 1 lines, none for N = 0), computed from the
\* final question sequence.
C6_TwoLinesPerQuestion ==
  xpc = "out" =>
    LET qs == xout.quizQuestions
        key == xout.answerKey
        N == Len(qs)
    IN /\ Len(key) = IF N = 0 THEN 0 ELSE 3 * N - 1
       /\ \A k \in 1..N :
            /\ key[3 * k - 2] = [tag |-> "Q", n |-> k, text |-> Question(qs[k])]
            /\ key[3 * k - 1] = [tag |-> "A", n |-> 0, text |-> CorrectAnswer(qs[k])]
            /\ k < N => key[3 * k] = [tag |-> "", n |-> 0, text |-> ""]

\* C6 witness: an answer key made of two questions.
C6_Witness == xpc = "out" /\ Len(xout.quizQuestions) = 2 /\ Len(xout.answerKey) = 5

\* The canonical fallback question of the specification.
FallbackQuestion ==
  [question |-> "What was the main topic of the video?",
   options |-> <<"Topic A", "Topic B", "Topic C", "Topic D">>,
   correctAnswer |-> "Topic A"]

\* C7 as stated: when the text holds no JSON quiz or the located span does
\* not parse, the result is exactly the fallback question, with no exception.
C7_FallbackQuestion ==
  (xpc = "out" /\ xin.kind \in {"plain", "broken"}) =>
    /\ ~xout.raised
    /\ CastQuiz(xout.quizQuestions) = <<FallbackQuestion>>

\* C7 amended: when the text holds no JSON quiz or the located span does not
\* parse, the result is the empty question sequence with an empty answer
\* key, and no exception leaves the extraction.
C7_EmptyOnFailure ==
  (xpc = "out" /\ xin.kind \in {"plain", "broken"}) =>
    /\ ~xout.raised
    /\ xout.quizQuestions = <<>>
    /\ xout.answerKey = <<>>

\* C7 witness: a text in which a span was located that does not parse.
C7_Witness ==
  /\ xpc = "out" /\ xin.kind = "broken"
  /\ \E i \in 1..Len(xin.text) : xin.text[i] = RB /\ i > 1 /\ xin.text[i - 1] = RC
  /\ xin.text[1] = LB /\ xin.text[2] = LC

\* C8 as stated: a well-formed quiz in either shape, inside code fences
\* and/or prose, comes back as exactly its question objects, in order.
C8_RoundTrip ==
  (xpc = "out" /\ xin.kind = "wrapped") =>
    /\ ~xout.raised
    /\ CastQuiz(xout.quizQuestions) = [i \in 1..Len(xin.quiz) |-> Members(xin.quiz[i])]

\* C9: the response with the job id is sent when the record has been stored
\* as processing and no stage has started; no stage starts before it; and
\* once sent a response never changes, whatever the pipeline does later.
C9_ResponseBeforePipeline ==
  [][\A j \in Jobs :
       /\ response[j] # "none" => response'[j] = response[j]
       /\ (response[j] = "none" /\ response'[j] = "processing") =>
            (store'[j].status = "processing" /\ stages'[j] = <<>>)
       /\ (stages[j] = <<>> /\ stages'[j] # <<>>) => response[j] = "processing"]_vars

\* C9 witness: a job whose pipeline failed after the response said processing.
C9_Witness ==
  \E j \in Jobs : /\ response[j] = "processing" /\ store[j].status = "failed"
                  /\ pc[j] = "done"

\* C10 as stated: when the save of the failure path throws, the record stays
\* processing and the throw is caught by the task, which ends normally.
C10_SecondFailureCaught ==
  \A j \in Jobs :
    "saveFailed" \in thrown[j] => (store[j].status = "processing" /\ pc[j] = "done")

\* C11: every job whose background task has been scheduled eventually has a
\* stored status of completed or failed, unless one of its saves threw,
\* also while the other job is running.
C11_EveryJobEnds ==
  \A j \in Jobs :
    (pc[j] = "scheduled") ~> (store[j].status \in Terminal \/ thrown[j] \cap Saves # {})

\* C11 witness: a job reached a terminal status with no save thrown while
\* the other job was still running and had touched its temp files.
C11_Witness ==
  \E j, k \in Jobs :
    /\ j # k /\ store[j].status \in Terminal /\ thrown[j] \cap Saves = {}
    /\ Running(k) /\ \E op \in {"overwrite", "read", "delete"} : <<k, op, j>> \in foreign

\* C12: on the document and on the stored record, error is set only when
\* status is failed; once the task's catch has run the document has status
\* failed and the message of the error that was caught (here the rejected
\* save of the completed record), and so has the stored record once the save
\* of the catch has resolved.
C12_ErrorOnlyWhenFailed ==
  \A j \in Jobs :
    /\ doc[j].error # "" => doc[j].status = "failed"
    /\ store[j].error # "" => store[j].status = "failed"
    /\ doc[j].status = "failed" => (doc[j].error = "save" /\ "saveCompleted" \in thrown[j])
    /\ store[j].status = "failed" => store[j].error = "save"
    /\ pc[j] \in {"awaitSaveFailed", "unhandled"} => doc[j].status = "failed"
    /\ (pc[j] = "done" /\ "saveCompleted" \in thrown[j]) =>
         (store[j].status = "failed" /\ store[j].error = "save")

\* C12 witness: a task that aborted and whose failed record was stored.
C12_Witness ==
  \E j \in Jobs : /\ pc[j] = "done" /\ "saveCompleted" \in thrown[j]
                  /\ store[j].status = "failed" /\ store[j].error = "save"

\* An entry lacks its question or its correctAnswer or has not four options.
Incomplete(b) ==
  \/ Members(b).question = "undefined" \/ Members(b).correctAnswer = "undefined"
  \/ Len(Members(b).options) # 4
\* The batches with an incomplete entry among the texts of a lone upload.
Batches ==
  {qs \in {<<"b3">>, <<"bX">>, <<"bA", "b3">>, <<"bNQ", "bA", "bNA">>} :
     \E i \in 1..Len(qs) : Incomplete(qs[i])}

Rank(c) ==
  CASE c = "recognize" -> 1 [] c = "ocr" -> 2 [] c = "describe" -> 2
    [] c = "summary" -> 3 [] OTHER -> 4
StageOf(c) == IF Rank(c) > 3 THEN 3 ELSE Rank(c)
StageOrder == <<"audio", "visual", "synthesis">>

\* C14: a job's stages are entered in the order audio, visual, synthesis;
\* its capability calls are issued in that order, recognize, summary and
\* quiz at most once and summary before quiz; a call is issued only in its
\* stage; the job has at most one capability call in flight, the last one
\* issued; and the document is marked completed only when synthesis has been
\* entered and no call is in flight.
C14_StagesInOrder ==
  \A j \in Jobs :
    /\ Len(stages[j]) <= 3 /\ stages[j] = SubSeq(StageOrder, 1, Len(stages[j]))
    /\ \A a, b \in 1..Len(calls[j]) :
         a < b => /\ Rank(calls[j][a].c) <= Rank(calls[j][b].c)
                  /\ Rank(calls[j][a].c) # 2 => Rank(calls[j][a].c) < Rank(calls[j][b].c)
    /\ \A a \in 1..Len(calls[j]) :
         /\ StageOf(calls[j][a].c) <= Len(stages[j])
         /\ Rank(calls[j][a].c) = 4 => calls[j][a - 1].c = "summary"
    /\ inflight[j] # {} => inflight[j] = {calls[j][Len(calls[j])].c}
    /\ inflight[j] # {} => StageOf(calls[j][Len(calls[j])].c) = Len(stages[j])
    /\ doc[j].status = "completed" =>
         /\ stages[j] = StageOrder /\ inflight[j] = {}
         /\ \E a \in 1..Len(calls[j]) : calls[j][a].c = "summary"

\* C14 witness: a job that went through recognize, both calls on each of two
\* frames, summary and quiz, and was stored completed, next to another job
\* that is under way.
C14_Witness ==
  \E j, k \in Jobs :
    /\ j # k /\ Running(k) /\ store[j].status = "completed"
    /\ [a \in 1..Len(calls[j]) |-> calls[j][a].c] =
         <<"recognize", "ocr", "describe", "ocr", "describe", "summary", "quiz">>

\* The frames of the pieces of one kind in a text, in the text's order.
FramesIn(text, kind) ==
  LET ps == SelectSeq(text, LAMBDA p : p.k = kind) IN [a \in 1..Len(ps) |-> ps[a].s]
Ascending(fs) == \A a, b \in 1..Len(fs) : a < b => fs[a] < fs[b]
\* The calls of the visual stage in a call log, in order.
VisualCalls(cs) == SelectSeq(cs, LAMBDA c : c.c \in {"ocr", "describe"})

\* C15: a job analyses at most 5 frames, the first ones of the listing; the
\* calls of its visual stage are textDetection then the description of
\* frame 1, then of frame 2, and so on, and by the time synthesis starts both
\* have been issued for every analysed frame, whichever of them threw, and
\* for no other frame; extractedText holds the text of each frame
\* whose textDetection returned, each followed by a newline, and
\* visualDescription the descriptions that returned, joined by separators,
\* both in frame order and complete when the call never threw.
C15_FramesIndependent ==
  \A j \in Jobs :
    /\ Len(files[j]) <= 5
    /\ \A a \in 1..Len(files[j]) : files[j][a] = a
    /\ LET vc == VisualCalls(calls[j]) IN
         /\ Len(vc) <= 2 * Len(files[j])
         /\ \A a \in 1..Len(vc) :
              vc[a] = Call(IF a % 2 = 1 THEN "ocr" ELSE "describe", (a + 1) \div 2)
         /\ (Len(stages[j]) = 3 /\ "ffmpegFrames" \notin thrown[j]) =>
              /\ Len(files[j]) = (IF video[j] < 5 THEN video[j] ELSE 5)
              /\ Len(vc) = 2 * Len(files[j])
    /\ doc[j].status = "completed" =>
         LET text == doc[j].extractedText
             desc == doc[j].visualDescription
             tf == FramesIn(text, "ocr")
             df == FramesIn(desc, "desc")
         IN /\ Ascending(tf) /\ Ascending(df)
            /\ Len(text) = 2 * Len(tf) /\ \A a \in 1..Len(tf) : text[2 * a] = Newline
            /\ Len(desc) = (IF df = <<>> THEN 0 ELSE 2 * Len(df) - 1)
            /\ \A a \in 1..(Len(df) - 1) : desc[2 * a] = Separator
            /\ \A a \in 1..Len(tf) : tf[a] <= Len(files[j]) /\ text[2 * a - 1].o = j
            /\ \A a \in 1..Len(df) : df[a] <= Len(files[j]) /\ desc[2 * a - 1].o = j
            /\ "ocr" \notin thrown[j] => Len(tf) = Len(files[j])
            /\ "describe" \notin thrown[j] => Len(df) = Len(files[j])

\* C15 witness: a completed job with a video of more than 5 frames where
\* textDetection threw on frame 1 and its description returned, the
\* description of frame 2 threw and its text returned, and frame 5 gave both.
C15_Witness ==
  \E j \in Jobs :
    /\ store[j].status = "completed" /\ video[j] > 5
    /\ FramesIn(store[j].extractedText, "ocr") = <<2, 3, 4, 5>>
    /\ FramesIn(store[j].visualDescription, "desc") = <<1, 3, 4, 5>>

\* C16: when extractAudioFromVideo returned null no recognize call is ever
\* issued, and when recognize threw, the transcript is empty, the visual
\* stage is entered in the same callback run, and a completed document has
\* an empty transcript; when neither happened the transcript is the
\* transcription.
C16_AudioDegraded ==
  \A j \in Jobs :
    /\ "ffmpegAudio" \in thrown[j] =>
         /\ \A a \in 1..Len(calls[j]) : calls[j][a].c # "recognize"
         /\ ~audioPath[j]
    /\ ("ffmpegAudio" \in thrown[j] \/ "recognize" \in thrown[j]) =>
         /\ transcript[j] = <<>>
         /\ Len(stages[j]) >= 2 /\ stages[j][2] = "visual"
         /\ doc[j].status \in {"processing", "completed"} \/ thrown[j] \cap Saves # {}
         /\ doc[j].status = "completed" => doc[j].transcript = <<>>
    /\ (Len(stages[j]) >= 2 /\ thrown[j] \cap {"ffmpegAudio", "recognize"} = {}) =>
         (Len(transcript[j]) = 1 /\ transcript[j][1].k = "speech")

\* C16 witness: one job completed after audio extraction returned null, the
\* other after recognize threw; both stored an empty transcript.
C16_Witness ==
  \E j, k \in Jobs :
    /\ "ffmpegAudio" \in thrown[j] /\ "recognize" \in thrown[k]
    /\ store[j].status = "completed" /\ store[k].status = "completed"
    /\ store[j].transcript = <<>> /\ store[k].transcript = <<>>
    /\ calls[j][1].c = "ocr" /\ calls[k][1].c = "recognize"

CleanupThrows == {"unlinkVideo", "unlinkAudio"}

\* C17: when an unlink of the cleanup has thrown, the task has ended, the
\* stored record is completed with no error and holds exactly what the
\* pipeline produced, and the document equals it; and a record stored as
\* completed, and its document, never change again.
C17_CleanupNeverFailsJob ==
  /\ [](\A j \in Jobs :
          thrown[j] \cap CleanupThrows # {} =>
            /\ pc[j] = "done"
            /\ store[j].status = "completed" /\ store[j].error = ""
            /\ doc[j] = store[j]
            /\ store[j].transcript = transcript[j]
            /\ store[j].extractedText = allText[j]
            /\ store[j].visualDescription = JoinDescriptions(descriptions[j]))
  /\ [][\A j \in Jobs :
          store[j].status = "completed" => (store'[j] = store[j] /\ doc'[j] = doc[j])]_vars

\* C17 witness: the unlink of /tmp/audio.wav threw after the video was
\* deleted; the file is still there and the job is stored completed.
C17_Witness ==
  \E j \in Jobs :
    /\ "unlinkAudio" \in thrown[j] /\ pc[j] = "done" /\ videoFile[j] = "deleted"
    /\ audioFile # 0 /\ store[j].status = "completed" /\ store[j].error = ""

SynthesisReturned(j) ==
  Len(stages[j]) = 3 /\ pc[j] \notin {"awaitSummary", "awaitQuiz"}

\* C18: when the summary call threw no quiz call is ever issued; when the
\* quiz call threw the summary had been obtained; in both cases, once the
\* stage has returned, the document has summary "", no questions and an empty
\* answer key, and it is marked completed (failed only when the save of the
\* completed record threw).  When neither threw, the summary is kept.
C18_SynthesisAllOrNothing ==
  \A j \in Jobs :
    /\ "summary" \in thrown[j] =>
         /\ \A a \in 1..Len(calls[j]) : calls[j][a].c # "quiz"
         /\ summary[j] = "" /\ "quiz" \notin thrown[j]
    /\ "quiz" \in thrown[j] =>
         /\ summary[j] = "summary"
         /\ \E a \in 1..Len(calls[j]) : calls[j][a].c = "quiz"
    /\ (thrown[j] \cap {"summary", "quiz"} # {}) =>
         /\ SynthesisReturned(j)
         /\ doc[j].summary = "" /\ doc[j].quizQuestions = <<>> /\ doc[j].answerKey = <<>>
         /\ doc[j].status = "completed" \/ "saveCompleted" \in thrown[j]
         /\ (pc[j] = "done" /\ "saveCompleted" \notin thrown[j]) =>
              /\ store[j].status = "completed" /\ store[j].summary = ""
              /\ store[j].quizQuestions = <<>> /\ store[j].answerKey = <<>>
    /\ (SynthesisReturned(j) /\ thrown[j] \cap {"summary", "quiz"} = {}) =>
         doc[j].summary = "summary"

\* C18 witness: one job stored completed after its summary call threw, the
\* other after its quiz call threw; both with an empty synthesis.
C18_Witness ==
  \E j, k \in Jobs :
    /\ "summary" \in thrown[j] /\ "quiz" \in thrown[k]
    /\ store[j].status = "completed" /\ store[k].status = "completed"
    /\ store[j].summary = "" /\ store[k].summary = "" /\ summary[k] = "summary"

====
